---- MODULE Spec2Model ----
(***************************************************************************)
(* Model of the audio-server repository:                                   *)
(*   server.py             __main__ (derived configuration), read_wav_data, *)
(*                         handle_client                                    *)
(*                         handle_client, start_server (accept loop)        *)
(*   microphone-server.py  AudioTCPServer (accept thread, capture thread,   *)
(*                         stop_server), AudioTCPClient.connect_and_play    *)
(*   client.py             play_stream                                      *)
(* Time is counted in milliseconds; a byte is a number in 0..255.          *)
(***************************************************************************)
EXTENDS Integers, Sequences, FiniteSets, TLC

VARIABLES
    \* server.py __main__
    args,              \* the parsed command line
    config,            \* args plus the derived values (NoConfig before they are computed)
    mpc,               \* position of __main__
    \* server.py handle_client
    wav_files,         \* the file list handed to the handler
    hpc,               \* position of the handler
    wav_indices,       \* the shuffled indices of this pass
    pos,               \* position of the for loop in wav_indices
    audio_data,        \* frames of the file being streamed
    chunk_i,           \* the chunk loop's i
    client_active,
    bytes_sent_total,
    clock,             \* time.monotonic() - start_time, in ms
    sleep_from,        \* clock when the pending time.sleep was called
    sleep_scaled,      \* the pending sleep, in ms * bytes_per_sec
    net,               \* state of the connection as the peer and network leave it
    conn_closes,       \* number of conn.close() calls
    sends,             \* log of the sendall calls: [kind, data, ok]
    file_mark,         \* Len(sends) when the current file started
    log,               \* the handler's last error/disconnect log line
    passes,            \* passes of the outer loop started
    streamed_in_pass,  \* a file was streamed in the current pass
    idle_passes,       \* completed passes in which no file was streamed
    idle_sleeps,       \* number of time.sleep(1) calls
    \* microphone-server.py AudioTCPServer
    running,           \* self.running
    clients,           \* self.clients, the registry
    lock,              \* the thread holding self.lock, or "free"
    sock,              \* every client socket: its state on the server, its peer,
                       \* and the number of close() calls on it
    wlog,              \* per client socket, the log of the send calls: [item, ok]
    apc,               \* position of the accept thread (start_server)
    acc,               \* the socket accept() returned last
    cpc,               \* position of the capture thread (_audio_stream)
    data,              \* number of the chunk read last
    idx,               \* position of the broadcast loop in self.clients
    disconnected_clients,
    round,             \* the broadcast round entered last: its chunk and the registry then
    spc,               \* position of stop_server
    \* server.py start_server
    lpc,               \* position of the accept loop
    accepts,           \* number of s.accept() calls
    conn,              \* the connection accept() returned in this iteration
    current_wav_files, \* the listing of this iteration
    threads,           \* per connection, its handler thread: its state and file list
    errors_logged,     \* number of "Error accepting/starting thread" log lines
    conn_socks,        \* per connection, its socket: "none", "open" or "closed"
    \* client.py play_stream and microphone-server.py AudioTCPClient
    player,            \* the function that runs: "play_stream" or "connect_and_play"
    ppc,               \* position of the player
    pa,                \* the PyAudio instance: "none", "live" or "terminated"
    out_stream,        \* the playback stream: "none", "open" or "closed"
    device,            \* the playback device: "ok" or "failed"
    s_sock,            \* the player's socket: "none", "open" or "closed"
    output_file,       \* play_stream's text file: "none" or "open"
    wire,              \* the bytes the server has sent and the player has not received
    recv_size,         \* the size asked of recv in the receive loop
    recv_data,             \* the bytes recv returned last
    played,            \* the bytes written to the playback stream
    header,            \* what connect_and_play unpacked from the header (<<>> before)
    sent_config,       \* what the microphone server packed into the header
    result             \* how the player ended: "none", "returned" or "raised"

mainVars == <<args, config, mpc>>
handlerVars == <<wav_files, hpc, wav_indices, pos, audio_data, chunk_i, client_active,
                 bytes_sent_total, clock, sleep_from, sleep_scaled, net, conn_closes,
                 sends, file_mark, log, passes, streamed_in_pass, idle_passes,
                 idle_sleeps>>
micVars == <<running, clients, lock, sock, wlog, apc, acc, cpc, data, idx,
             disconnected_clients, round, spc>>
serverVars == <<lpc, accepts, conn, current_wav_files, threads, errors_logged,
               conn_socks>>
playerVars == <<player, ppc, pa, out_stream, device, s_sock, output_file, wire,
                recv_size, recv_data, played, header, sent_config, result>>
vars == <<mainVars, handlerVars, micVars, serverVars, playerVars>>

\* What the handler thread and its connection leave alone.
notHandlerVars == <<mainVars, micVars, serverVars, playerVars>>
\* What __main__ leaves alone.
notMainVars == <<handlerVars, micVars, serverVars, playerVars>>
\* What the microphone server leaves alone.
notMicVars == <<mainVars, handlerVars, serverVars, playerVars>>
\* What the accept loop of server.py leaves alone.
notServerVars == <<mainVars, handlerVars, micVars, playerVars>>
\* What the players leave alone.
notPlayerVars == <<mainVars, handlerVars, micVars, serverVars>>

----------------------------------------------------------------------------
(* Bounds of the model *)
MaxChunkMs == 2
MaxSilenceMs == 1
MaxMainMs == 12
MaxFiles == 2
MaxPasses == 2
MaxClock == 4
MaxClients == 2
MaxChunks == 3
MaxAccepts == 3
MaxAudio == 3
MaxBuffer == 2

----------------------------------------------------------------------------
(* Sequences *)
Min(a, b) == IF a < b THEN a ELSE b

Repeat(s, n) == [k \in 1..(Len(s) * n) |-> s[((k - 1) % Len(s)) + 1]]

RECURSIVE Flatten(_)
Flatten(ss) == IF ss = <<>> THEN <<>> ELSE Head(ss) \o Flatten(Tail(ss))

Perms(n) == {p \in [1..n -> 1..n] : \A a, b \in 1..n : p[a] = p[b] => a = b}

----------------------------------------------------------------------------
(* IEEE-754 double arithmetic, as far as __main__ uses it.                  *)
(* A positive double is [m, e]: m its significand as a bit sequence, most   *)
(* significant bit first, of at most 53 bits, and value = m * 2^e.          *)
(* Zero is [m |-> <<>>, e |-> 0]. Long numbers are sequences of limbs, base *)
(* 1024, most significant first (ten bits each).                            *)

\* The limbs of the integer n >= 0.
RECURSIVE LimbsOf(_)
LimbsOf(n) == IF n = 0 THEN <<>> ELSE Append(LimbsOf(n \div 1024), n % 1024)

RECURSIVE LimbsToInt(_)
LimbsToInt(ls) ==
    IF ls = <<>> THEN 0
    ELSE 1024 * LimbsToInt(SubSeq(ls, 1, Len(ls) - 1)) + ls[Len(ls)]

LimbsToBits(ls) ==
    [j \in 1..(10 * Len(ls)) |-> (ls[((j - 1) \div 10) + 1] \div 2^(9 - ((j - 1) % 10))) % 2]

\* Bit p of the bit sequence b once padded on the left to n bits.
PaddedBit(b, n, p) == IF p <= n - Len(b) THEN 0 ELSE b[p - (n - Len(b))]

BitsToLimbs(b) ==
    LET count == (Len(b) + 9) \div 10
        n == 10 * count
    IN [i \in 1..count |->
          512 * PaddedBit(b, n, 10 * i - 9) + 256 * PaddedBit(b, n, 10 * i - 8)
          + 128 * PaddedBit(b, n, 10 * i - 7) + 64 * PaddedBit(b, n, 10 * i - 6)
          + 32 * PaddedBit(b, n, 10 * i - 5) + 16 * PaddedBit(b, n, 10 * i - 4)
          + 8 * PaddedBit(b, n, 10 * i - 3) + 4 * PaddedBit(b, n, 10 * i - 2)
          + 2 * PaddedBit(b, n, 10 * i - 1) + PaddedBit(b, n, 10 * i)]

BitsToInt(b) == LimbsToInt(BitsToLimbs(b))

StripZeros(b) ==
    IF \A j \in 1..Len(b) : b[j] = 0 THEN <<>>
    ELSE LET first == CHOOSE i \in 1..Len(b) : b[i] = 1 /\ \A j \in 1..(i - 1) : b[j] = 0
         IN SubSeq(b, first, Len(b))

\* b + 1 (one bit longer when b is all ones).
IncBits(b) ==
    IF \A j \in 1..Len(b) : b[j] = 1 THEN <<1>> \o [j \in 1..Len(b) |-> 0]
    ELSE LET last == CHOOSE i \in 1..Len(b) : b[i] = 0 /\ \A j \in (i + 1)..Len(b) : b[j] = 1
         IN [j \in 1..Len(b) |-> IF j < last THEN b[j] ELSE IF j = last THEN 1 ELSE 0]

\* Long division of the limbs ls by the small divisor den, from limb k on, with
\* the quotient limbs quot and the remainder rem so far:
\* [q |-> quotient limbs, r |-> remainder].
RECURSIVE DivLimbs(_, _, _, _, _)
DivLimbs(ls, den, k, quot, rem) ==
    IF k > Len(ls) THEN [q |-> quot, r |-> rem]
    ELSE DivLimbs(ls, den, k + 1, Append(quot, (1024 * rem + ls[k]) \div den),
                  (1024 * rem + ls[k]) % den)

\* ls * factor for a small factor: limb n of ls and the ones above it still to
\* multiply, the carry, and the low limbs of the product found so far.
RECURSIVE MulLimbs(_, _, _, _, _)
MulLimbs(ls, factor, n, carry, low) ==
    IF n = 0 THEN LimbsOf(carry) \o low
    ELSE MulLimbs(ls, factor, n - 1, (carry + ls[n] * factor) \div 1024,
                  <<(carry + ls[n] * factor) % 1024>> \o low)

\* Round b * 2^e (plus something below the last bit when sticky) to 53 bits,
\* to nearest, ties to even.
RoundNearestEven(b, sticky, e) ==
    IF Len(b) <= 53 THEN [m |-> b, e |-> e]
    ELSE LET m == SubSeq(b, 1, 53)
             guard == b[54]
             rest == sticky \/ \E k \in 55..Len(b) : b[k] = 1
             e2 == e + Len(b) - 53
             up == guard = 1 /\ (rest \/ m[53] = 1)
             m2 == IF up THEN IncBits(m) ELSE m
         IN IF Len(m2) > 53 THEN [m |-> SubSeq(m2, 1, 53), e |-> e2 + 1]
            ELSE [m |-> m2, e |-> e2]

\* The quotient limbs and remainder of a long division, scaled by 2^e, as a double.
RoundQuotient(quot, e) ==
    RoundNearestEven(StripZeros(LimbsToBits(quot.q)), quot.r # 0, e)

\* num / den as a double (Python's int / int, correctly rounded), num >= 0,
\* 0 < den <= 1024: the quotient is computed to 70 binary places.
FloatDiv(num, den) ==
    IF num = 0 THEN [m |-> <<>>, e |-> 0]
    ELSE RoundQuotient(DivLimbs(LimbsOf(num) \o <<0, 0, 0, 0, 0, 0, 0>>, den, 1, <<>>, 0),
                       -70)

\* factor * f as a double, factor a non-negative int.
FloatMulInt(factor, f) ==
    IF factor = 0 \/ f.m = <<>> THEN [m |-> <<>>, e |-> 0]
    ELSE RoundNearestEven(
             StripZeros(LimbsToBits(MulLimbs(BitsToLimbs(f.m), factor,
                                             Len(BitsToLimbs(f.m)), 0, <<>>))),
             FALSE, f.e)

\* int(f): truncation. Only results that fit an int are used.
FloatToInt(f) ==
    IF f.e >= 0 THEN BitsToInt(f.m \o [j \in 1..f.e |-> 0])
    ELSE IF Len(f.m) + f.e <= 0 THEN 0
    ELSE BitsToInt(SubSeq(f.m, 1, Len(f.m) + f.e))

\* int(rate * (ms / 1000)), server.py lines 290 and 292.
SamplesIn(rate, ms) == FloatToInt(FloatMulInt(rate, FloatDiv(ms, 1000)))

----------------------------------------------------------------------------
(* server.py __main__: the derived configuration *)

DEFAULT_U8_SILENCE_BYTE_VALUE == 128

NoConfig == [none |-> TRUE]

\* struct.pack('<h', v): two bytes, little-endian, two's complement.
PackShortLE(v) ==
    LET u == (v + 65536) % 65536 IN <<u % 256, u \div 256>>

SilenceBytes(bits, channels, bytes_per_sample, silence_samples) ==
    IF bits = 8
    THEN [k \in 1..(silence_samples * bytes_per_sample) |-> DEFAULT_U8_SILENCE_BYTE_VALUE]
    ELSE Repeat(Repeat(PackShortLE(0), channels), silence_samples)

Main(a) ==
    LET bytes_per_sample == (a.bits \div 8) * a.channels
        chunk_size_samples == SamplesIn(a.sample_rate, a.chunk_ms)
        silence_samples == SamplesIn(a.sample_rate, a.silence_ms)
    IN [sample_rate |-> a.sample_rate, bits |-> a.bits, channels |-> a.channels,
        chunk_ms |-> a.chunk_ms, silence_ms |-> a.silence_ms,
        bytes_per_sample |-> bytes_per_sample,
        chunk_size_samples |-> chunk_size_samples,
        chunk_size_bytes |-> chunk_size_samples * bytes_per_sample,
        silence_samples |-> silence_samples,
        silence_bytes |-> SilenceBytes(a.bits, a.channels, bytes_per_sample, silence_samples),
        bytes_per_sec |-> a.sample_rate * bytes_per_sample]

Args(rate, bits, channels, chunk_ms, silence_ms) ==
    [sample_rate |-> rate, bits |-> bits, channels |-> channels,
     chunk_ms |-> chunk_ms, silence_ms |-> silence_ms]

\* The command lines __main__ is run on: argparse admits 8|16 bits, 1|2
\* channels and any integer for --chunk-ms and --silence-ms.
MainArgs ==
    {Args(r, b, c, m, s) : r \in {8000, 16000, 44100, 48000}, b \in {8, 16},
                           c \in {1, 2}, m \in {0, 20}, s \in 0..MaxMainMs}

MainCompute ==
    /\ mpc = "start"
    /\ config' = Main(args)
    /\ mpc' = "done"
    /\ UNCHANGED <<args, notMainVars>>

\* Line 314: start_server(args) is called with the values as computed.
MainStartServer ==
    /\ mpc = "done"
    /\ mpc' = "serving"
    /\ UNCHANGED <<args, config, notMainVars>>

----------------------------------------------------------------------------
(* server.py read_wav_data *)

\* A file on disk: what wave.open meets, its header and its frames.
\*   "ok"          a well-formed WAV file
\*   "missing"     open() raises FileNotFoundError
\*   "malformed"   wave.open raises wave.Error
\*   "unreadable"  open() or wave.open raises another exception
\*                 (PermissionError, IsADirectoryError, EOFError on a truncated file)
WavFile(state, rate, bits, channels, frames) ==
    [state |-> state, rate |-> rate, bits |-> bits, channels |-> channels,
     frames |-> frames]

ReturnNone == [tag |-> "none"]
Raise == [tag |-> "raise"]
ReturnFrames(frames) == [tag |-> "frames", frames |-> frames]

\* What the try/except of read_wav_data makes of wave.open: only wave.Error and
\* FileNotFoundError are caught.
OpenOutcome(state) ==
    CASE state = "ok" -> "opened"
      [] state = "malformed" -> "none"
      [] state = "missing" -> "none"
      [] OTHER -> "raise"

read_wav_data_NoChannelCheck(f, expected_rate, expected_bits, expected_channels) ==
    CASE OpenOutcome(f.state) = "raise" -> Raise
      [] OpenOutcome(f.state) = "none" -> ReturnNone
      [] OTHER ->
           IF f.rate # expected_rate THEN ReturnNone
           ELSE IF f.bits # expected_bits THEN ReturnNone
           ELSE ReturnFrames(f.frames)

read_wav_data(f, expected_rate, expected_bits, expected_channels) ==
    CASE OpenOutcome(f.state) = "raise" -> Raise
      [] OpenOutcome(f.state) = "none" -> ReturnNone
      [] OTHER ->
           IF f.rate # expected_rate THEN ReturnNone
           ELSE IF f.bits # expected_bits THEN ReturnNone
           ELSE IF f.channels # expected_channels THEN ReturnNone
           ELSE ReturnFrames(f.frames)

----------------------------------------------------------------------------
(* server.py handle_client *)

\* audio_data[i: i + chunk_size_bytes], i counted from 0.
ChunkAt_DropLast(buf, i, chunk_size_bytes) ==
    SubSeq(buf, i + 1, Min(i + chunk_size_bytes, Len(buf)) - 1)

ChunkAt(buf, i, chunk_size_bytes) ==
    SubSeq(buf, i + 1, Min(i + chunk_size_bytes, Len(buf)))

\* sleep_time = bytes_sent_total / bytes_per_sec - elapsed, in ms and multiplied
\* by bytes_per_sec to stay in the integers.
SleepTimeScaled_BeforeChunk(sent_total, chunk_len, elapsed, bytes_per_sec) ==
    (sent_total - chunk_len) * 1000 - elapsed * bytes_per_sec

SleepTimeScaled(sent_total, chunk_len, elapsed, bytes_per_sec) ==
    sent_total * 1000 - elapsed * bytes_per_sec

\* conn.sendall(...) on the connection as it is: it returns, or raises
\* BrokenPipeError/ConnectionResetError, or raises another exception.
SendOutcome(n) ==
    CASE n = "up" -> "ok"
      [] n = "reset" -> "disconnect"
      [] OTHER -> "error"

\* Where the handler goes once a send has failed and client_active is False:
\* the breaks of lines 136/140, 142-143 and 171-172 lead to the finally clause.
AfterFileSendFailure_SendSilence == "silence"

AfterFileSendFailure == "finally"

\* Where an exception that reaches the outer try of handle_client goes.
AfterHandlerException_Escapes == "done"

AfterHandlerException == "finally"

\* Where the for loop goes after a file that read_wav_data returned None for:
\* the continue of line 101 leads to the next file.
AfterSkippedFile_SendSilence == "silence"

AfterSkippedFile == "for"

\* Line 176: the idle sleep is taken when the file list is empty.
IdleSleepDue(files) == files = <<>>

SendRecord(kind, buf, ok) == [kind |-> kind, data |-> buf, ok |-> ok]

\* The bytes the client has received.
Received == Flatten([k \in 1..Len(sends) |-> IF sends[k].ok THEN sends[k].data ELSE <<>>])

\* The chunks of the current file sent so far.
FileChunks == [k \in 1..(Len(sends) - file_mark) |-> sends[file_mark + k].data]

\* Lines 85-87: the head of the while loop and the shuffle.
H_Shuffle_WithRepeats ==
    /\ UNCHANGED notHandlerVars
    /\ hpc = "while"
    /\ client_active
    /\ passes < MaxPasses
    /\ wav_indices' \in [1..Len(wav_files) -> 1..Len(wav_files)]
    /\ pos' = 1
    /\ passes' = passes + 1
    /\ streamed_in_pass' = FALSE
    /\ hpc' = "for"
    /\ UNCHANGED <<wav_files, audio_data, chunk_i, client_active, bytes_sent_total,
                   clock, sleep_from, sleep_scaled, net, conn_closes, sends, file_mark,
                   log, idle_passes, idle_sleeps>>

H_Shuffle ==
    /\ UNCHANGED notHandlerVars
    /\ hpc = "while"
    /\ client_active
    /\ passes < MaxPasses
    /\ \E p \in Perms(Len(wav_files)) : wav_indices' = [k \in 1..Len(wav_files) |-> p[k]]
    /\ pos' = 1
    /\ passes' = passes + 1
    /\ streamed_in_pass' = FALSE
    /\ hpc' = "for"
    /\ UNCHANGED <<wav_files, audio_data, chunk_i, client_active, bytes_sent_total,
                   clock, sleep_from, sleep_scaled, net, conn_closes, sends, file_mark,
                   log, idle_passes, idle_sleeps>>

\* Lines 88-111: the head of the for loop, read_wav_data, and the start of the
\* chunk loop (range() raises ValueError on a zero step).
H_NextFile ==
    /\ UNCHANGED notHandlerVars
    /\ hpc = "for"
    /\ IF pos > Len(wav_indices)
       THEN /\ hpc' = "endpass"
            /\ UNCHANGED <<pos, audio_data, chunk_i, bytes_sent_total, clock,
                           file_mark, log, streamed_in_pass>>
       ELSE LET r == read_wav_data(wav_files[wav_indices[pos]], config.sample_rate,
                                   config.bits, config.channels)
            IN CASE r.tag = "raise" ->
                      /\ hpc' = AfterHandlerException
                      /\ log' = "handler exception"
                      /\ UNCHANGED <<pos, audio_data, chunk_i, bytes_sent_total, clock,
                                     file_mark, streamed_in_pass>>
                 [] r.tag = "none" ->
                      /\ pos' = pos + 1
                      /\ hpc' = AfterSkippedFile
                      /\ UNCHANGED <<audio_data, chunk_i, bytes_sent_total, clock,
                                     file_mark, log, streamed_in_pass>>
                 [] OTHER ->
                      /\ audio_data' = r.frames
                      /\ clock' = 0
                      /\ bytes_sent_total' = 0
                      /\ file_mark' = Len(sends)
                      /\ IF config.chunk_size_bytes = 0
                         THEN /\ hpc' = AfterHandlerException
                              /\ log' = "handler exception"
                              /\ UNCHANGED <<chunk_i, streamed_in_pass>>
                         ELSE /\ hpc' = "chunk"
                              /\ chunk_i' = 0
                              /\ streamed_in_pass' = TRUE
                              /\ UNCHANGED log
                      /\ UNCHANGED pos
    /\ UNCHANGED <<wav_files, wav_indices, client_active, sleep_from, sleep_scaled, net,
                   conn_closes, sends, passes, idle_passes, idle_sleeps>>

\* Lines 111-143: one iteration of the chunk loop up to the call of time.sleep,
\* or the end of the loop.
H_Chunk ==
    /\ UNCHANGED notHandlerVars
    /\ hpc = "chunk"
    /\ IF chunk_i >= Len(audio_data)
       THEN /\ hpc' = "silence"
            /\ UNCHANGED <<chunk_i, client_active, bytes_sent_total, sleep_from,
                           sleep_scaled, sends, log>>
       ELSE LET chunk == ChunkAt(audio_data, chunk_i, config.chunk_size_bytes)
                total == bytes_sent_total + Len(chunk)
                sleep_time == SleepTimeScaled(total, Len(chunk), clock, config.bytes_per_sec)
            IN CASE SendOutcome(net) = "ok" ->
                      /\ sends' = Append(sends, SendRecord("file", chunk, TRUE))
                      /\ bytes_sent_total' = total
                      /\ IF sleep_time > 0
                         THEN /\ hpc' = "sleep"
                              /\ sleep_from' = clock
                              /\ sleep_scaled' = sleep_time
                              /\ UNCHANGED chunk_i
                         ELSE /\ hpc' = "chunk"
                              /\ chunk_i' = chunk_i + config.chunk_size_bytes
                              /\ UNCHANGED <<sleep_from, sleep_scaled>>
                      /\ UNCHANGED <<client_active, log>>
                 [] SendOutcome(net) = "disconnect" ->
                      /\ sends' = Append(sends, SendRecord("file", chunk, FALSE))
                      /\ log' = "disconnected"
                      /\ client_active' = FALSE
                      /\ hpc' = AfterFileSendFailure
                      /\ UNCHANGED <<chunk_i, bytes_sent_total, sleep_from, sleep_scaled>>
                 [] OTHER ->
                      /\ sends' = Append(sends, SendRecord("file", chunk, FALSE))
                      /\ log' = "error sending data"
                      /\ client_active' = FALSE
                      /\ hpc' = AfterFileSendFailure
                      /\ UNCHANGED <<chunk_i, bytes_sent_total, sleep_from, sleep_scaled>>
    /\ UNCHANGED <<wav_files, wav_indices, pos, audio_data, clock, net, conn_closes,
                   file_mark, passes, streamed_in_pass, idle_passes, idle_sleeps>>

\* Line 127: time.sleep(sleep_time) returns once at least sleep_time has passed.
H_Wake ==
    /\ UNCHANGED notHandlerVars
    /\ hpc = "sleep"
    /\ (clock - sleep_from) * config.bytes_per_sec >= sleep_scaled
    /\ hpc' = "chunk"
    /\ chunk_i' = chunk_i + config.chunk_size_bytes
    /\ sleep_from' = 0
    /\ sleep_scaled' = 0
    /\ UNCHANGED <<wav_files, wav_indices, pos, audio_data, client_active,
                   bytes_sent_total, clock, net, conn_closes, sends, file_mark, log,
                   passes, streamed_in_pass, idle_passes, idle_sleeps>>

\* Lines 145-169: the silence between files, its sleep, and the reset of the
\* pacing state.
H_Silence ==
    /\ UNCHANGED notHandlerVars
    /\ hpc = "silence"
    /\ CASE SendOutcome(net) = "ok" ->
              /\ sends' = Append(sends, SendRecord("silence", config.silence_bytes, TRUE))
              /\ clock' = 0
              /\ bytes_sent_total' = 0
              /\ pos' = pos + 1
              /\ hpc' = "for"
              /\ UNCHANGED <<client_active, log>>
         [] SendOutcome(net) = "disconnect" ->
              /\ sends' = Append(sends, SendRecord("silence", config.silence_bytes, FALSE))
              /\ log' = "disconnected during silence"
              /\ client_active' = FALSE
              /\ hpc' = "finally"
              /\ UNCHANGED <<clock, bytes_sent_total, pos>>
         [] OTHER ->
              /\ sends' = Append(sends, SendRecord("silence", config.silence_bytes, FALSE))
              /\ log' = "error sending silence"
              /\ client_active' = FALSE
              /\ hpc' = "finally"
              /\ UNCHANGED <<clock, bytes_sent_total, pos>>
    /\ UNCHANGED <<wav_files, wav_indices, audio_data, chunk_i, sleep_from, sleep_scaled,
                   net, conn_closes, file_mark, passes, streamed_in_pass, idle_passes,
                   idle_sleeps>>

\* Lines 171-177: the end of a pass.
H_EndPass ==
    /\ UNCHANGED notHandlerVars
    /\ hpc = "endpass"
    /\ idle_sleeps' = IF IdleSleepDue(wav_files) THEN idle_sleeps + 1 ELSE idle_sleeps
    /\ idle_passes' = IF streamed_in_pass THEN idle_passes ELSE idle_passes + 1
    /\ hpc' = "while"
    /\ UNCHANGED <<wav_files, wav_indices, pos, audio_data, chunk_i, client_active,
                   bytes_sent_total, clock, sleep_from, sleep_scaled, net, conn_closes,
                   sends, file_mark, log, passes, streamed_in_pass>>

\* Lines 181-183: the finally clause.
H_Finally ==
    /\ UNCHANGED notHandlerVars
    /\ hpc = "finally"
    /\ conn_closes' = conn_closes + 1
    /\ hpc' = "done"
    /\ UNCHANGED <<wav_files, wav_indices, pos, audio_data, chunk_i, client_active,
                   bytes_sent_total, clock, sleep_from, sleep_scaled, net, sends,
                   file_mark, log, passes, streamed_in_pass, idle_passes, idle_sleeps>>

\* The monotonic clock advances.
Tick ==
    /\ UNCHANGED notHandlerVars
    /\ hpc \in {"chunk", "sleep"}
    /\ clock < MaxClock
    /\ clock' = clock + 1
    /\ UNCHANGED <<wav_files, hpc, wav_indices, pos, audio_data, chunk_i, client_active,
                   bytes_sent_total, sleep_from, sleep_scaled, net, conn_closes, sends,
                   file_mark, log, passes, streamed_in_pass, idle_passes, idle_sleeps>>

\* The peer closes or resets the connection. The handler meets the failure at
\* its next sendall only, so the step is taken where a send comes next.
PeerDisconnects ==
    /\ UNCHANGED notHandlerVars
    /\ net = "up"
    /\ hpc \in {"chunk", "silence"}
    /\ net' = "reset"
    /\ UNCHANGED <<wav_files, hpc, wav_indices, pos, audio_data, chunk_i, client_active,
                   bytes_sent_total, clock, sleep_from, sleep_scaled, conn_closes, sends,
                   file_mark, log, passes, streamed_in_pass, idle_passes, idle_sleeps>>

\* The connection fails in another way (sendall raises another OSError).
ConnectionFails ==
    /\ UNCHANGED notHandlerVars
    /\ net = "up"
    /\ hpc \in {"chunk", "silence"}
    /\ net' = "broken"
    /\ UNCHANGED <<wav_files, hpc, wav_indices, pos, audio_data, chunk_i, client_active,
                   bytes_sent_total, clock, sleep_from, sleep_scaled, conn_closes, sends,
                   file_mark, log, passes, streamed_in_pass, idle_passes, idle_sleeps>>

\* The peer closes or resets the connection while the handler is between two
\* passes of its outer loop.
PeerDisconnectsBetweenPasses ==
    /\ UNCHANGED notHandlerVars
    /\ net = "up"
    /\ hpc = "while"
    /\ net' = "reset"
    /\ UNCHANGED <<wav_files, hpc, wav_indices, pos, audio_data, chunk_i, client_active,
                   bytes_sent_total, clock, sleep_from, sleep_scaled, conn_closes, sends,
                   file_mark, log, passes, streamed_in_pass, idle_passes, idle_sleeps>>

HandlerStep ==
    \/ H_Shuffle
    \/ H_NextFile
    \/ H_Chunk
    \/ H_Wake
    \/ H_Silence
    \/ H_EndPass
    \/ H_Finally

HandlerStart ==
    /\ hpc = "while"
    /\ wav_indices = <<>>
    /\ pos = 1
    /\ audio_data = <<>>
    /\ chunk_i = 0
    /\ client_active = TRUE
    /\ bytes_sent_total = 0
    /\ clock = 0
    /\ sleep_from = 0
    /\ sleep_scaled = 0
    /\ net = "up"
    /\ conn_closes = 0
    /\ sends = <<>>
    /\ file_mark = 0
    /\ log = "none"
    /\ passes = 0
    /\ streamed_in_pass = FALSE
    /\ idle_passes = 0
    /\ idle_sleeps = 0

\* The files the audio directory may hold (8-bit mono, 1000 Hz expected): three
\* valid files, one of them with no frame, one with another sample rate, one
\* with another bit depth, one with another channel count, a missing one, a
\* malformed one and an unreadable one.
HandlerFiles ==
    <<WavFile("ok", 1000, 8, 1, <<11, 12, 13>>),
      WavFile("ok", 1000, 8, 1, <<21, 22>>),
      WavFile("ok", 1000, 8, 1, <<>>),
      WavFile("ok", 2000, 8, 1, <<31, 32>>),
      WavFile("ok", 1000, 16, 1, <<41, 42>>),
      WavFile("ok", 1000, 8, 2, <<51, 52>>),
      WavFile("missing", 0, 0, 0, <<>>),
      WavFile("malformed", 0, 0, 0, <<>>),
      WavFile("unreadable", 0, 0, 0, <<>>)>>

\* Directory listings: at most MaxFiles distinct files. They are listed in one
\* order only: random.shuffle makes the handler go through every order.
FileLists ==
    {[k \in 1..Len(ix) |-> HandlerFiles[ix[k]]] :
        ix \in {jx \in UNION {[1..n -> 1..Len(HandlerFiles)] : n \in 0..MaxFiles} :
                   \A a, b \in 1..Len(jx) : a < b => jx[a] < jx[b]}}

HandlerArgs ==
    {Args(1000, 8, 1, c, s) : c \in 0..MaxChunkMs, s \in 0..MaxSilenceMs}

----------------------------------------------------------------------------
(* microphone-server.py AudioTCPServer *)

ClientIds == 1..MaxClients

Header == [kind |-> "header"]
Audio(n) == [kind |-> "audio", seq |-> n]
ShortAudio(n) == [kind |-> "short", seq |-> n]

\* socket.send on a client socket: it raises once the server has closed the
\* socket; after the peer has gone it raises, unless the data still fits the
\* socket's buffer. The socket is a blocking one (no timeout is set on it): while
\* the peer does not read and the buffer is full, the call does not return.
WriteOutcomes(s) ==
    IF s.state = "closed" THEN {"fail"}
    ELSE IF s.peer = "gone" THEN {"ok", "fail"}
    ELSE IF s.peer = "stalled" THEN {}
    ELSE {"ok"}

\* client.close() on the server's side of a client socket.
Close(s) == [s EXCEPT !.state = "closed", !.closes = @ + 1]

\* self.clients.remove(client): the first occurrence is removed.
RemoveClient_Forgotten(cl, c) == cl

RemoveClient(cl, c) ==
    IF \E k \in 1..Len(cl) : cl[k] = c
    THEN LET first == CHOOSE k \in 1..Len(cl) : cl[k] = c /\ \A j \in 1..(k - 1) : cl[j] # c
         IN SubSeq(cl, 1, first - 1) \o SubSeq(cl, first + 1, Len(cl))
    ELSE cl

Members(cl) == {cl[k] : k \in 1..Len(cl)}

\* Line 59: the head of the accept loop.
A_Loop ==
    /\ UNCHANGED notMicVars
    /\ apc = "loop"
    /\ apc' = IF running THEN "accept" ELSE "exited"
    /\ UNCHANGED <<running, clients, lock, sock, wlog, acc, cpc, data, idx,
                   disconnected_clients, round, spc>>

\* Lines 61-63 and 72-73: accept() times out, or returns the socket of a new client.
A_Accept ==
    /\ UNCHANGED notMicVars
    /\ apc = "accept"
    /\ \E connects \in BOOLEAN :
         IF connects /\ \E c \in ClientIds : sock[c].state = "none"
         THEN LET c == CHOOSE n \in ClientIds :
                           sock[n].state = "none" /\ \A j \in 1..(n - 1) : sock[j].state # "none"
              IN /\ sock' = [sock EXCEPT ![c].state = "open"]
                 /\ acc' = c
                 /\ apc' = "header"
         ELSE /\ apc' = "loop"
              /\ UNCHANGED <<sock, acc>>
    /\ UNCHANGED <<running, clients, lock, wlog, cpc, data, idx, disconnected_clients,
                   round, spc>>

\* Lines 66-67 and 74-75: the configuration header is sent; an exception of send
\* is printed and the loop goes on.
A_SendHeader_Skipped ==
    /\ UNCHANGED notMicVars
    /\ apc = "header"
    /\ apc' = "lock"
    /\ UNCHANGED <<running, clients, lock, sock, wlog, acc, cpc, data, idx,
                   disconnected_clients, round, spc>>

A_SendHeader ==
    /\ UNCHANGED notMicVars
    /\ apc = "header"
    /\ \E o \in WriteOutcomes(sock[acc]) :
         /\ wlog' = [wlog EXCEPT ![acc] = Append(@, [item |-> Header, ok |-> o = "ok"])]
         /\ apc' = IF o = "ok" THEN "lock" ELSE "loop"
    /\ UNCHANGED <<running, clients, lock, sock, acc, cpc, data, idx,
                   disconnected_clients, round, spc>>

\* Line 69: with self.lock.
A_Lock_NotTaken ==
    /\ UNCHANGED notMicVars
    /\ apc = "lock"
    /\ apc' = "append"
    /\ UNCHANGED <<running, clients, lock, sock, wlog, acc, cpc, data, idx,
                   disconnected_clients, round, spc>>

A_Lock ==
    /\ UNCHANGED notMicVars
    /\ apc = "lock"
    /\ lock = "free"
    /\ lock' = "accept"
    /\ apc' = "append"
    /\ UNCHANGED <<running, clients, sock, wlog, acc, cpc, data, idx,
                   disconnected_clients, round, spc>>

\* Line 70: the client joins the registry, and the lock is released.
A_Append ==
    /\ UNCHANGED notMicVars
    /\ apc = "append"
    /\ clients' = Append(clients, acc)
    /\ lock' = "free"
    /\ apc' = "loop"
    /\ UNCHANGED <<running, sock, wlog, acc, cpc, data, idx, disconnected_clients,
                   round, spc>>

\* Line 91: the head of the capture loop; lines 116-117 when it ends.
C_Loop ==
    /\ UNCHANGED notMicVars
    /\ cpc = "loop"
    /\ cpc' = IF running THEN "read" ELSE "exited"
    /\ UNCHANGED <<running, clients, lock, sock, wlog, apc, acc, data, idx,
                   disconnected_clients, round, spc>>

\* Lines 94 and 112-113: stream.read returns the next chunk, or raises.
C_Read ==
    /\ UNCHANGED notMicVars
    /\ cpc = "read"
    /\ \E read_ok \in BOOLEAN :
         IF read_ok /\ data < MaxChunks
         THEN /\ data' = data + 1
              /\ cpc' = "lock"
         ELSE /\ cpc' = "backoff"
              /\ UNCHANGED data
    /\ UNCHANGED <<running, clients, lock, sock, wlog, apc, acc, idx,
                   disconnected_clients, round, spc>>

\* Line 114: time.sleep(0.1) after a failed read.
C_Backoff_Exits ==
    /\ UNCHANGED notMicVars
    /\ cpc = "backoff"
    /\ cpc' = "exited"
    /\ UNCHANGED <<running, clients, lock, sock, wlog, apc, acc, data, idx,
                   disconnected_clients, round, spc>>

C_Backoff ==
    /\ UNCHANGED notMicVars
    /\ cpc = "backoff"
    /\ cpc' = "loop"
    /\ UNCHANGED <<running, clients, lock, sock, wlog, apc, acc, data, idx,
                   disconnected_clients, round, spc>>

\* Lines 97-98: with self.lock; disconnected_clients = [].
C_Lock ==
    /\ UNCHANGED notMicVars
    /\ cpc = "lock"
    /\ lock = "free"
    /\ lock' = "capture"
    /\ disconnected_clients' = <<>>
    /\ idx' = 1
    /\ round' = [chunk |-> data, members |-> Members(clients)]
    /\ cpc' = "broadcast"
    /\ UNCHANGED <<running, clients, sock, wlog, apc, acc, data, spc>>

\* Lines 100-104: one iteration of the broadcast loop, or its end.
C_Send ==
    /\ UNCHANGED notMicVars
    /\ cpc = "broadcast"
    /\ IF idx > Len(clients)
       THEN /\ cpc' = "remove"
            /\ UNCHANGED <<wlog, idx, disconnected_clients>>
       ELSE \E o \in WriteOutcomes(sock[clients[idx]]) :
              /\ wlog' = [wlog EXCEPT ![clients[idx]] =
                              Append(@, [item |-> Audio(data), ok |-> o = "ok"])]
              /\ disconnected_clients' =
                     IF o = "ok" THEN disconnected_clients
                     ELSE Append(disconnected_clients, clients[idx])
              /\ idx' = idx + 1
              /\ UNCHANGED cpc
    /\ UNCHANGED <<running, clients, lock, sock, apc, acc, data, round, spc>>

\* Line 102, when client.send(data) returns a count below len(data): send hands
\* the socket as many bytes as it takes and returns their number; the number is
\* not looked at, nothing is raised, and the loop goes on to the next client.
C_SendShort ==
    /\ UNCHANGED notMicVars
    /\ cpc = "broadcast"
    /\ idx <= Len(clients)
    /\ sock[clients[idx]].state = "open"
    /\ wlog' = [wlog EXCEPT ![clients[idx]] =
                    Append(@, [item |-> ShortAudio(data), ok |-> TRUE])]
    /\ idx' = idx + 1
    /\ UNCHANGED <<running, clients, lock, sock, apc, acc, cpc, data,
                   disconnected_clients, round, spc>>

\* Lines 107-110: one iteration of the removal loop, or its end and the release
\* of the lock.
C_Remove ==
    /\ UNCHANGED notMicVars
    /\ cpc = "remove"
    /\ IF disconnected_clients = <<>>
       THEN /\ lock' = "free"
            /\ cpc' = "loop"
            /\ UNCHANGED <<clients, sock, disconnected_clients>>
       ELSE /\ clients' = RemoveClient(clients, Head(disconnected_clients))
            /\ sock' = [sock EXCEPT ![Head(disconnected_clients)] =
                            Close(sock[Head(disconnected_clients)])]
            /\ disconnected_clients' = Tail(disconnected_clients)
            /\ UNCHANGED <<lock, cpc>>
    /\ UNCHANGED <<running, wlog, apc, acc, data, idx, round, spc>>

\* Line 124: stop_server is called.
S_Stop ==
    /\ UNCHANGED notMicVars
    /\ spc = "idle"
    /\ running' = FALSE
    /\ spc' = "lock"
    /\ UNCHANGED <<clients, lock, sock, wlog, apc, acc, cpc, data, idx,
                   disconnected_clients, round>>

\* Line 126: with self.lock.
S_Lock ==
    /\ UNCHANGED notMicVars
    /\ spc = "lock"
    /\ lock = "free"
    /\ lock' = "stop"
    /\ spc' = "closing"
    /\ UNCHANGED <<running, clients, sock, wlog, apc, acc, cpc, data, idx,
                   disconnected_clients, round>>

\* Lines 127-132: every registered client is closed, the registry is cleared,
\* the lock is released and the audio library is terminated.
S_CloseAll_NoClear ==
    /\ UNCHANGED notMicVars
    /\ spc = "closing"
    /\ sock' = [c \in ClientIds |->
                  IF c \in Members(clients) THEN Close(sock[c])
                  ELSE sock[c]]
    /\ lock' = "free"
    /\ spc' = "done"
    /\ UNCHANGED <<running, clients, wlog, apc, acc, cpc, data, idx,
                   disconnected_clients, round>>

S_CloseAll ==
    /\ UNCHANGED notMicVars
    /\ spc = "closing"
    /\ sock' = [c \in ClientIds |->
                  IF c \in Members(clients) THEN Close(sock[c])
                  ELSE sock[c]]
    /\ clients' = <<>>
    /\ lock' = "free"
    /\ spc' = "done"
    /\ UNCHANGED <<running, wlog, apc, acc, cpc, data, idx, disconnected_clients, round>>

\* A client closes its end of the connection.
ClientCloses ==
    /\ UNCHANGED notMicVars
    /\ \E c \in ClientIds :
         /\ sock[c].state = "open"
         /\ sock[c].peer \in {"up", "stalled"}
         /\ sock' = [sock EXCEPT ![c].peer = "gone"]
    /\ UNCHANGED <<running, clients, lock, wlog, apc, acc, cpc, data, idx,
                   disconnected_clients, round, spc>>

\* A registered client stops reading and the buffer of its socket fills up.
PeerStalls ==
    /\ UNCHANGED notMicVars
    /\ \E c \in Members(clients) :
         /\ sock[c].state = "open"
         /\ sock[c].peer = "up"
         /\ sock' = [sock EXCEPT ![c].peer = "stalled"]
    /\ UNCHANGED <<running, clients, lock, wlog, apc, acc, cpc, data, idx,
                   disconnected_clients, round, spc>>

\* A stalled client reads again.
PeerResumes ==
    /\ UNCHANGED notMicVars
    /\ \E c \in ClientIds :
         /\ sock[c].state = "open"
         /\ sock[c].peer = "stalled"
         /\ sock' = [sock EXCEPT ![c].peer = "up"]
    /\ UNCHANGED <<running, clients, lock, wlog, apc, acc, cpc, data, idx,
                   disconnected_clients, round, spc>>

\* AudioTCPServer.__init__ and the first lines of start_server: running is set,
\* the capture thread is started and the server socket listens.
MicStart ==
    /\ running = TRUE
    /\ clients = <<>>
    /\ lock = "free"
    /\ sock = [c \in ClientIds |-> [state |-> "none", peer |-> "up", closes |-> 0]]
    /\ wlog = [c \in ClientIds |-> <<>>]
    /\ apc = "loop"
    /\ acc = 0
    /\ cpc = "loop"
    /\ data = 0
    /\ idx = 1
    /\ disconnected_clients = <<>>
    /\ round = [chunk |-> 0, members |-> {}]
    /\ spc = "idle"

----------------------------------------------------------------------------
(* server.py start_server: the accept loop *)

ConnIds == 1..MaxAccepts

NoThread == [state |-> "none"]

\* Where the accept loop goes when its try block raises an Exception: the
\* except clause of lines 248-249 logs and the while loop goes round.
AfterAcceptLoopError_Fatal == "stopped"

AfterAcceptLoopError == "accept"

\* The listings os.listdir may give: the directory changes between connections.
Listings == {<<>>, <<HandlerFiles[1]>>, <<HandlerFiles[1], HandlerFiles[2]>>}

\* The name conn is bound to a new socket: the socket it named before, when no
\* handler thread was given it, is referred to by nothing any more. Nothing in
\* the code closes it; the interpreter closes it when it reclaims the object,
\* at once or later.
Rebind(socks, old, new) ==
    {[socks EXCEPT ![new] = "open"]} \cup
    (IF old # 0 /\ threads[old].state = "none" /\ socks[old] = "open"
     THEN {[socks EXCEPT ![new] = "open", ![old] = "closed"]}
     ELSE {})

\* Line 232: conn, addr = s.accept(); it returns a connection or raises.
L_Accept ==
    /\ UNCHANGED notServerVars
    /\ lpc = "accept"
    /\ accepts < MaxAccepts
    /\ accepts' = accepts + 1
    /\ \E outcome \in {"ok", "raise"} :
          IF outcome = "ok"
          THEN /\ conn' = accepts + 1
               /\ conn_socks' \in Rebind(conn_socks, conn, accepts + 1)
               /\ lpc' = "scan"
               /\ UNCHANGED errors_logged
          ELSE /\ errors_logged' = errors_logged + 1
               /\ lpc' = AfterAcceptLoopError
               /\ UNCHANGED <<conn, conn_socks>>
    /\ UNCHANGED <<current_wav_files, threads>>

\* Lines 235-240: get_wav_files(config.audio_dir); os.listdir returns a listing
\* or raises (the directory was removed or cannot be read).
L_Scan ==
    /\ UNCHANGED notServerVars
    /\ lpc = "scan"
    /\ \/ /\ current_wav_files' \in Listings
          /\ lpc' = "start"
          /\ UNCHANGED errors_logged
       \/ /\ errors_logged' = errors_logged + 1
          /\ lpc' = AfterAcceptLoopError
          /\ UNCHANGED current_wav_files
    /\ UNCHANGED <<accepts, conn, threads, conn_socks>>

\* Lines 242-247: the handler thread is created and started on a copy of the
\* listing; Thread.start() raises RuntimeError when no thread can be started.
L_StartThread ==
    /\ UNCHANGED notServerVars
    /\ lpc = "start"
    /\ \/ /\ threads' = [threads EXCEPT ![conn] =
                            [state |-> "running", wav_files |-> current_wav_files]]
          /\ lpc' = "accept"
          /\ UNCHANGED errors_logged
       \/ /\ errors_logged' = errors_logged + 1
          /\ lpc' = AfterAcceptLoopError
          /\ UNCHANGED threads
    /\ UNCHANGED <<accepts, conn, current_wav_files, conn_socks>>

\* Lines 253-256: KeyboardInterrupt is not an Exception: it leaves the loop.
L_Interrupt ==
    /\ UNCHANGED notServerVars
    /\ lpc \in {"accept", "scan", "start"}
    /\ lpc' = "interrupted"
    /\ UNCHANGED <<accepts, conn, current_wav_files, threads, errors_logged, conn_socks>>

\* A handler thread ends (handle_client returns once its client has gone); its
\* finally clause closes the connection (line 183).
L_HandlerEnds ==
    /\ UNCHANGED notServerVars
    /\ \E c \in ConnIds :
          /\ threads[c].state = "running"
          /\ threads' = [threads EXCEPT ![c].state = "ended"]
          /\ conn_socks' = [conn_socks EXCEPT ![c] = "closed"]
    /\ UNCHANGED <<lpc, accepts, conn, current_wav_files, errors_logged>>

ServerStart ==
    /\ lpc = "accept"
    /\ accepts = 0
    /\ conn = 0
    /\ current_wav_files = <<>>
    /\ threads = [c \in ConnIds |-> NoThread]
    /\ errors_logged = 0
    /\ conn_socks = [c \in ConnIds |-> "none"]

----------------------------------------------------------------------------
(* client.py play_stream *)

\* The audio bytes a server sends before it closes the connection.
AudioBytes == [k \in 1..MaxAudio |-> 100 + k]

\* s.recv(n): some bytes of the stream, at least one and at most n, when the
\* server has sent bytes the player has not received; the empty string when the
\* server has closed and nothing is left; or a socket error.
RecvOutcomes(n) ==
    {[tag |-> "error"]}
        \cup (IF wire = <<>> THEN {[tag |-> "data", len |-> 0]}
              ELSE {[tag |-> "data", len |-> k] : k \in 1..Min(n, Len(wire))})

\* PyAudio.terminate() closes the streams of the instance that are still open.
TerminateStream(st) == IF st = "open" THEN "closed" ELSE st

\* client.py lines 156-163: __main__ exits on a buffer size that is not
\* positive, and calls play_stream otherwise.
PS_Main ==
    /\ UNCHANGED notPlayerVars
    /\ player = "play_stream"
    /\ ppc = "main"
    /\ IF recv_size <= 0
       THEN /\ ppc' = "done"
            /\ result' = "exit"
       ELSE /\ ppc' = "start"
            /\ UNCHANGED result
    /\ UNCHANGED <<player, pa, out_stream, device, s_sock, output_file, wire, recv_size,
                   recv_data, played, header, sent_config>>

\* Lines 19-44: PyAudio(), the format, and p.open, which raises OSError when
\* the device cannot be opened.
PS_OpenStream ==
    /\ UNCHANGED notPlayerVars
    /\ player = "play_stream"
    /\ ppc = "start"
    /\ \/ /\ pa' = "live"
          /\ out_stream' = "open"
          /\ ppc' = "open_file"
          /\ UNCHANGED result
       \/ /\ pa' = "terminated"
          /\ ppc' = "done"
          /\ result' = "returned"
          /\ UNCHANGED out_stream
    /\ UNCHANGED <<player, device, s_sock, output_file, wire, recv_size, recv_data, played,
                   header, sent_config>>

\* Lines 47-61: the text file is opened and its heading written, outside any
\* try block: an OSError of open() or write() leaves play_stream.
PS_OpenFile ==
    /\ UNCHANGED notPlayerVars
    /\ player = "play_stream"
    /\ ppc = "open_file"
    /\ \/ /\ output_file' = "open"
          /\ ppc' = "connect"
          /\ UNCHANGED result
       \/ /\ ppc' = "done"
          /\ result' = "raised"
          /\ UNCHANGED output_file
    /\ UNCHANGED <<player, pa, out_stream, device, s_sock, wire, recv_size, recv_data,
                   played, header, sent_config>>

\* Lines 64-68 and 119-120: the socket is created and connected; a failure of
\* connect leaves the with block, which closes the socket.
PS_Connect ==
    /\ UNCHANGED notPlayerVars
    /\ player = "play_stream"
    /\ ppc = "connect"
    /\ \/ /\ s_sock' = "open"
          /\ ppc' = "recv"
       \/ /\ s_sock' = "closed"
          /\ ppc' = "finally"
    /\ UNCHANGED <<player, pa, out_stream, device, output_file, wire, recv_size, recv_data,
                   played, header, sent_config, result>>

\* Lines 70-104 and 108-110: recv; an empty read or a socket error breaks out of
\* the loop and of the with block, which closes the socket.
PS_Recv ==
    /\ UNCHANGED notPlayerVars
    /\ player = "play_stream"
    /\ ppc = "recv"
    /\ \E o \in RecvOutcomes(recv_size) :
          IF o.tag = "data" /\ o.len > 0
          THEN /\ recv_data' = SubSeq(wire, 1, o.len)
               /\ wire' = SubSeq(wire, o.len + 1, Len(wire))
               /\ ppc' = "write"
               /\ UNCHANGED s_sock
          ELSE /\ s_sock' = "closed"
               /\ ppc' = "finally"
               /\ UNCHANGED <<recv_data, wire>>
    /\ UNCHANGED <<player, pa, out_stream, device, output_file, recv_size, played,
                   header, sent_config, result>>

\* Lines 107 and 111-114: stream.write; an error of the device breaks out of the
\* loop and of the with block.
PS_Write ==
    /\ UNCHANGED notPlayerVars
    /\ player = "play_stream"
    /\ ppc = "write"
    /\ \/ /\ played' = played \o recv_data
          /\ ppc' = "recv"
          /\ UNCHANGED <<device, s_sock>>
       \/ /\ device' = "failed"
          /\ s_sock' = "closed"
          /\ ppc' = "finally"
          /\ UNCHANGED played
    /\ UNCHANGED <<player, pa, out_stream, output_file, wire, recv_size, recv_data, header, sent_config,
                   result>>

\* Lines 123-131: the stream is stopped and closed if it is active (a stream
\* whose device has failed may be inactive), and the library is terminated.
PS_Finally ==
    /\ UNCHANGED notPlayerVars
    /\ player = "play_stream"
    /\ ppc = "finally"
    /\ \E is_active \in (IF device = "failed" THEN BOOLEAN ELSE {TRUE}) :
          out_stream' = TerminateStream(IF is_active THEN "closed" ELSE out_stream)
    /\ pa' = "terminated"
    /\ ppc' = "done"
    /\ result' = "returned"
    /\ UNCHANGED <<player, device, s_sock, output_file, wire, recv_size, recv_data, played,
                   header, sent_config>>

----------------------------------------------------------------------------
(* microphone-server.py AudioTCPClient.connect_and_play, and the header *)

\* struct.pack('!I', v): four bytes, most significant first.
PackUInt32BE(v) ==
    <<(v \div 16777216) % 256, (v \div 65536) % 256, (v \div 256) % 256, v % 256>>

\* struct.unpack('!I', b) of four bytes.
UnpackUInt32BE(b) == ((b[1] * 256 + b[2]) * 256 + b[3]) * 256 + b[4]

\* Line 66: struct.pack('!III', self.sample_rate, self.sample_width, self.chunk_size).
PackConfig(c) == PackUInt32BE(c[1]) \o PackUInt32BE(c[2]) \o PackUInt32BE(c[3])

\* Line 150: struct.unpack('!III', config_data), of twelve bytes.
UnpackConfig(b) ==
    <<UnpackUInt32BE(SubSeq(b, 1, 4)), UnpackUInt32BE(SubSeq(b, 5, 8)),
      UnpackUInt32BE(SubSeq(b, 9, 12))>>

HEADER_SIZE == 12

\* The configurations of the microphone server: the sample widths of
\* format_map, and chunk_size = 1024 (line 22).
MicConfigs == {<<r, w, 1024>> : r \in {8000, 44100}, w \in {1, 2, 4}}

\* Lines 144-146: the socket is created and connected; an exception of connect
\* leaves the with block, which closes the socket, and connect_and_play.
CP_Connect ==
    /\ UNCHANGED notPlayerVars
    /\ player = "connect_and_play"
    /\ ppc = "start"
    /\ \/ /\ s_sock' = "open"
          /\ ppc' = "recv_header"
          /\ UNCHANGED result
       \/ /\ s_sock' = "closed"
          /\ ppc' = "done"
          /\ result' = "raised"
    /\ UNCHANGED <<player, pa, out_stream, device, output_file, wire, recv_size, recv_data,
                   played, header, sent_config>>

\* Lines 149-150: one recv(12) and struct.unpack, which raises struct.error on
\* a buffer that is not twelve bytes long.
CP_RecvHeader ==
    /\ UNCHANGED notPlayerVars
    /\ player = "connect_and_play"
    /\ ppc = "recv_header"
    /\ \E o \in RecvOutcomes(HEADER_SIZE) :
          IF o.tag = "error"
          THEN /\ s_sock' = "closed"
               /\ ppc' = "done"
               /\ result' = "raised"
               /\ UNCHANGED <<recv_data, wire, header>>
          ELSE /\ recv_data' = SubSeq(wire, 1, o.len)
               /\ wire' = SubSeq(wire, o.len + 1, Len(wire))
               /\ IF o.len = HEADER_SIZE
                  THEN /\ header' = UnpackConfig(SubSeq(wire, 1, o.len))
                       /\ ppc' = "open_stream"
                       /\ UNCHANGED <<s_sock, result>>
                  ELSE /\ s_sock' = "closed"
                       /\ ppc' = "done"
                       /\ result' = "raised"
                       /\ UNCHANGED header
    /\ UNCHANGED <<player, pa, out_stream, device, output_file, recv_size, played,
                   sent_config>>

\* Lines 152-167: the playback stream is opened from the header's values; an
\* exception of p.open leaves connect_and_play.
CP_OpenStream ==
    /\ UNCHANGED notPlayerVars
    /\ player = "connect_and_play"
    /\ ppc = "open_stream"
    /\ \/ /\ header[2] \in {1, 2, 4}
          /\ out_stream' = "open"
          /\ recv_size' = header[3] * header[2]
          /\ ppc' = "recv"
          /\ UNCHANGED <<s_sock, result>>
       \/ /\ s_sock' = "closed"
          /\ ppc' = "done"
          /\ result' = "raised"
          /\ UNCHANGED <<out_stream, recv_size>>
    /\ UNCHANGED <<player, pa, device, output_file, wire, recv_data, played, header,
                   sent_config>>

\* Lines 170-173: recv; an empty read breaks out of the loop, a socket error
\* leaves the try block through its finally clause.
CP_Recv ==
    /\ UNCHANGED notPlayerVars
    /\ player = "connect_and_play"
    /\ ppc = "recv"
    /\ \E o \in RecvOutcomes(recv_size) :
          IF o.tag = "error"
          THEN /\ ppc' = "finally_raise"
               /\ UNCHANGED <<recv_data, wire>>
          ELSE IF o.len = 0
          THEN /\ ppc' = "finally"
               /\ UNCHANGED <<recv_data, wire>>
          ELSE /\ recv_data' = SubSeq(wire, 1, o.len)
               /\ wire' = SubSeq(wire, o.len + 1, Len(wire))
               /\ ppc' = "write"
    /\ UNCHANGED <<player, pa, out_stream, device, s_sock, output_file, recv_size,
                   played, header, sent_config, result>>

\* Line 174: stream.write; an error of the device leaves the try block through
\* its finally clause.
CP_Write ==
    /\ UNCHANGED notPlayerVars
    /\ player = "connect_and_play"
    /\ ppc = "write"
    /\ \/ /\ played' = played \o recv_data
          /\ ppc' = "recv"
          /\ UNCHANGED device
       \/ /\ device' = "failed"
          /\ ppc' = "finally_raise"
          /\ UNCHANGED played
    /\ UNCHANGED <<player, pa, out_stream, s_sock, output_file, wire, recv_size, recv_data,
                   header, sent_config, result>>

\* Lines 177-180: the stream is stopped and closed and the library terminated;
\* then the with block closes the socket, and a pending exception goes on.
CP_Finally ==
    /\ UNCHANGED notPlayerVars
    /\ player = "connect_and_play"
    /\ ppc \in {"finally", "finally_raise"}
    /\ out_stream' = "closed"
    /\ pa' = "terminated"
    /\ s_sock' = "closed"
    /\ result' = IF ppc = "finally" THEN "returned" ELSE "raised"
    /\ ppc' = "done"
    /\ UNCHANGED <<player, device, output_file, wire, recv_size, recv_data, played, header,
                   sent_config>>

\* No player runs.
PlayerStart ==
    /\ player = "play_stream"
    /\ ppc = "start"
    /\ pa = "none"
    /\ out_stream = "none"
    /\ device = "ok"
    /\ s_sock = "none"
    /\ output_file = "none"
    /\ wire = <<>>
    /\ recv_size = 1
    /\ recv_data = <<>>
    /\ played = <<>>
    /\ header = <<>>
    /\ sent_config = <<>>
    /\ result = "none"

----------------------------------------------------------------------------
(* Specifications *)

\* __main__ alone, on the command lines of MainArgs.
InitMain ==
    /\ args \in MainArgs
    /\ config = NoConfig
    /\ mpc = "start"
    /\ wav_files = <<>>
    /\ HandlerStart
    /\ MicStart
    /\ ServerStart
    /\ PlayerStart

NextMain ==
    \/ MainCompute
    \/ MainStartServer

SpecMain == InitMain /\ [][NextMain]_vars

\* One handler thread, on a configuration computed by __main__.
InitHandler ==
    /\ args \in HandlerArgs
    /\ config = Main(args)
    /\ mpc = "done"
    /\ wav_files \in FileLists
    /\ HandlerStart
    /\ MicStart
    /\ ServerStart
    /\ PlayerStart

NextHandler ==
    \/ HandlerStep
    \/ Tick
    \/ PeerDisconnects
    \/ ConnectionFails

SpecHandler == InitHandler /\ [][NextHandler]_vars

\* One handler thread whose client may disconnect between two passes as well.
NextRetire ==
    \/ NextHandler
    \/ PeerDisconnectsBetweenPasses

SpecRetire == InitHandler /\ [][NextRetire]_vars

\* End-to-end scenario 1: one valid 16000 Hz, 8-bit, mono file (two
\* milliseconds of audio), 20 ms chunks, and a silence of 10 ms or of 1001 ms.
Scenario1Payload == [k \in 1..32 |-> k]

Scenario1Args == {Args(16000, 8, 1, 20, s) : s \in {10, 1001}}

InitScenario1 ==
    /\ args \in Scenario1Args
    /\ config = Main(args)
    /\ mpc = "done"
    /\ wav_files = <<WavFile("ok", 16000, 8, 1, Scenario1Payload)>>
    /\ HandlerStart
    /\ MicStart
    /\ ServerStart
    /\ PlayerStart

SpecScenario1 == InitScenario1 /\ [][NextHandler]_vars

\* The microphone server: its accept thread, its capture thread, a caller of
\* stop_server, and the clients.
InitMic ==
    /\ args = Args(16000, 8, 1, 20, 10)
    /\ config = NoConfig
    /\ mpc = "start"
    /\ wav_files = <<>>
    /\ HandlerStart
    /\ MicStart
    /\ ServerStart
    /\ PlayerStart

NextMic ==
    \/ A_Loop
    \/ A_Accept
    \/ A_SendHeader
    \/ A_Lock
    \/ A_Append
    \/ C_Loop
    \/ C_Read
    \/ C_Backoff
    \/ C_Lock
    \/ C_Send
    \/ C_Remove
    \/ S_Stop
    \/ S_Lock
    \/ S_CloseAll
    \/ ClientCloses

SpecMic == InitMic /\ [][NextMic]_vars

\* The accept loop of start_server, once the socket listens.
InitServer ==
    /\ args = Args(16000, 8, 1, 20, 10)
    /\ config = Main(args)
    /\ mpc = "done"
    /\ wav_files = <<>>
    /\ HandlerStart
    /\ MicStart
    /\ ServerStart
    /\ PlayerStart

NextServer ==
    \/ L_Accept
    \/ L_Scan
    \/ L_StartThread
    \/ L_Interrupt
    \/ L_HandlerEnds

SpecServer == InitServer /\ [][NextServer]_vars

\* One player: play_stream of client.py on a WAV server's stream, or
\* connect_and_play on the stream of a microphone server, header first. The
\* server sends up to MaxAudio bytes of audio and closes.
InitPlayer ==
    /\ args = Args(16000, 8, 1, 20, 10)
    /\ config = Main(args)
    /\ mpc = "done"
    /\ wav_files = <<>>
    /\ HandlerStart
    /\ MicStart
    /\ ServerStart
    /\ player \in {"play_stream", "connect_and_play"}
    /\ ppc = (IF player = "play_stream" THEN "main" ELSE "start")
    /\ pa = (IF player = "connect_and_play" THEN "live" ELSE "none")
    /\ out_stream = "none"
    /\ device = "ok"
    /\ s_sock = "none"
    /\ output_file = "none"
    /\ sent_config \in (IF player = "connect_and_play" THEN MicConfigs ELSE {<<>>})
    /\ \E n \in 0..MaxAudio :
          wire = (IF player = "connect_and_play" THEN PackConfig(sent_config) ELSE <<>>)
                     \o SubSeq(AudioBytes, 1, n)
    /\ recv_size \in (IF player = "play_stream" THEN (-1)..MaxBuffer ELSE {0})
    /\ recv_data = <<>>
    /\ played = <<>>
    /\ header = <<>>
    /\ result = "none"

NextPlayer ==
    \/ PS_Main
    \/ PS_OpenStream
    \/ PS_OpenFile
    \/ PS_Connect
    \/ PS_Recv
    \/ PS_Write
    \/ PS_Finally
    \/ CP_Connect
    \/ CP_RecvHeader
    \/ CP_OpenStream
    \/ CP_Recv
    \/ CP_Write
    \/ CP_Finally

SpecPlayer == InitPlayer /\ [][NextPlayer]_vars

\* The microphone server with clients that may stop reading for a while.
NextMicStall ==
    \/ NextMic
    \/ PeerStalls
    \/ PeerResumes

SpecMicStall == InitMic /\ [][NextMicStall]_vars

\* The microphone server with writes that may take a part of the chunk only.
NextMicShort ==
    \/ NextMic
    \/ C_SendShort

SpecMicShort == InitMic /\ [][NextMicShort]_vars

\* The threads of the microphone server, each of which takes its next step when
\* it can: the calls they make return (accept times out after a second).
AcceptThread == A_Loop \/ A_Accept \/ A_SendHeader \/ A_Lock \/ A_Append

CaptureThread == C_Loop \/ C_Read \/ C_Backoff \/ C_Lock \/ C_Send \/ C_Remove

StopCaller == S_Lock \/ S_CloseAll

SpecMicFair ==
    /\ SpecMic
    /\ WF_vars(AcceptThread)
    /\ WF_vars(CaptureThread)
    /\ WF_vars(StopCaller)

----------------------------------------------------------------------------
(* Claims about handle_client *)

HandlerFailed == log # "none"

\* C3: handle_client closes its connection exactly once on every exit path
\* (send failure on file data, send failure on silence, unexpected exception):
\* conn.close() has been called once when the handler has ended and not at all
\* before, and a handler that has logged a failure is at its finally clause or
\* past it.
C3_ClosedExactlyOnce ==
    /\ conn_closes = (IF hpc = "done" THEN 1 ELSE 0)
    /\ HandlerFailed => hpc \in {"finally", "done"}

\* A handler that ended on an exception raised by read_wav_data after it had
\* streamed a file.
C3_Witness ==
    /\ hpc = "done"
    /\ log = "handler exception"
    /\ conn_closes = 1
    /\ sends # <<>>

\* C4: after a send has failed, on a file chunk or on the silence, there is no
\* further send on the connection: a failed send is the last entry of the log of
\* sends, and the handler is at its finally clause or past it.
C4_NoSendAfterFailure ==
    \A k \in 1..Len(sends) :
        ~sends[k].ok => k = Len(sends) /\ hpc \in {"finally", "done"}

\* A send of a file chunk failed while the file had a further chunk and the pass
\* a further file.
C4_Witness ==
    /\ hpc = "done"
    /\ sends # <<>>
    /\ ~sends[Len(sends)].ok
    /\ sends[Len(sends)].kind = "file"
    /\ log = "disconnected"
    /\ chunk_i + config.chunk_size_bytes < Len(audio_data)
    /\ pos < Len(wav_indices)

\* C5 (as claimed): every pass of the outer loop in which no file was streamed
\* contains the idle sleep of one second.
C5_IdlePassSleeps == idle_sleeps = idle_passes

\* read_wav_data returns frames for no file of the list.
NoUsableFile ==
    \A k \in 1..Len(wav_files) :
        read_wav_data(wav_files[k], config.sample_rate, config.bits,
                      config.channels).tag # "frames"

\* C6 (as claimed): with no usable file in the list the handler never closes the
\* connection: it does not reach its finally clause.
C6_NoUsableFileNeverCloses ==
    NoUsableFile => conn_closes = 0 /\ hpc \notin {"finally", "done"}

\* C7: while no send fails, the chunks of the current file go out in buffer
\* order, each of chunk_size_bytes except a possibly shorter last one, and when
\* the chunk loop has ended their concatenation is the whole buffer.
C7_ChunksCoverBuffer ==
    hpc \in {"chunk", "sleep", "silence"} =>
        /\ Flatten(FileChunks) = SubSeq(audio_data, 1, bytes_sent_total)
        /\ \A k \in 1..(Len(FileChunks) - 1) :
               Len(FileChunks[k]) = config.chunk_size_bytes
        /\ FileChunks # <<>> =>
               /\ Len(FileChunks[Len(FileChunks)]) \in 1..config.chunk_size_bytes
               /\ Len(FileChunks[Len(FileChunks)]) < config.chunk_size_bytes
                     => bytes_sent_total = Len(audio_data)
        /\ hpc = "silence" => Flatten(FileChunks) = audio_data

\* A file sent whole in two chunks, the last one shorter, by a sender that is
\* behind schedule.
C7_Witness ==
    /\ hpc = "silence"
    /\ Len(FileChunks) = 2
    /\ Len(FileChunks[2]) < config.chunk_size_bytes
    /\ Flatten(FileChunks) = audio_data
    /\ clock * config.bytes_per_sec > bytes_sent_total * 1000

\* C8: the pacer never runs ahead of real time: when the next chunk is about to
\* be handed to the socket, the time since the file's start is at least
\* (bytes sent so far) / bytes_per_sec; and it sleeps only when it is ahead of
\* schedule.
C8_NeverAheadOfRealTime ==
    /\ hpc = "chunk" =>
           clock * config.bytes_per_sec >= bytes_sent_total * 1000
    /\ hpc = "sleep" =>
           /\ sleep_scaled > 0
           /\ sleep_from * config.bytes_per_sec < bytes_sent_total * 1000

\* The sender is behind schedule with a chunk still to send.
C8_Witness ==
    /\ hpc = "chunk"
    /\ 0 < chunk_i
    /\ chunk_i < Len(audio_data)
    /\ clock * config.bytes_per_sec > bytes_sent_total * 1000

\* The header of a well-formed file differs from the expected format.
HeaderMismatch(f) ==
    /\ f.state = "ok"
    /\ \/ f.rate # config.sample_rate
       \/ f.bits # config.bits
       \/ f.channels # config.channels

Bytes(buf) == {buf[k] : k \in 1..Len(buf)}

\* The handler is about to read the file f.
AboutToRead(f) ==
    /\ hpc = "for"
    /\ pos <= Len(wav_indices)
    /\ wav_files[wav_indices[pos]] = f

\* C12: for a file whose header declares another sample rate, bit depth or
\* channel count, read_wav_data returns no buffer and raises nothing, no byte of
\* the file is ever sent, and the handler step that reads the file closes
\* nothing, sends nothing and moves on to the next file of the pass.
C12_MismatchSkipped ==
    /\ [](\A k \in 1..Len(wav_files) :
             HeaderMismatch(wav_files[k]) =>
                 /\ read_wav_data(wav_files[k], config.sample_rate, config.bits,
                                  config.channels) = ReturnNone
                 /\ \A j \in 1..Len(sends) :
                        Bytes(sends[j].data) \cap Bytes(wav_files[k].frames) = {})
    /\ [][\A k \in 1..Len(wav_files) :
             (HeaderMismatch(wav_files[k]) /\ AboutToRead(wav_files[k]) /\ H_NextFile) =>
                 /\ hpc' = "for"
                 /\ pos' = pos + 1
                 /\ sends' = sends
                 /\ conn_closes' = 0
                 /\ log' = "none"]_vars

\* A file with a header mismatch was skipped and the next file of the pass is
\* being streamed.
C12_Witness ==
    /\ hpc = "chunk"
    /\ pos = 2
    /\ passes = 1
    /\ HeaderMismatch(wav_files[wav_indices[1]])
    /\ wav_files[wav_indices[1]].channels # config.channels
    /\ sends # <<>>
    /\ conn_closes = 0

\* C13 (as claimed): a file that is missing, unreadable or malformed is
\* skipped: the handler step that fails to open it leaves the connection open,
\* logs no handler failure and moves on to the next file of the pass.
C13_ReadFailureSkipped ==
    [][\A k \in 1..Len(wav_files) :
          (wav_files[k].state # "ok" /\ AboutToRead(wav_files[k]) /\ H_NextFile) =>
              /\ hpc' = "for"
              /\ pos' = pos + 1
              /\ sends' = sends
              /\ log' = "none"]_vars

\* What holds: a missing or malformed file (FileNotFoundError, wave.Error) is
\* skipped in that way.
C13_CaughtFailureSkipped ==
    [][\A k \in 1..Len(wav_files) :
          (wav_files[k].state \in {"missing", "malformed"} /\ AboutToRead(wav_files[k])
              /\ H_NextFile) =>
              /\ hpc' = "for"
              /\ pos' = pos + 1
              /\ sends' = sends
              /\ log' = "none"]_vars

\* ix lists every index of the file list once.
IsPermutation(ix, n) ==
    /\ Len(ix) = n
    /\ \A k \in 1..n : \E j \in 1..n : ix[j] = k

\* C22: the handler cycles through the file list it was handed, which never
\* changes; in every pass the order is a permutation of the whole list, chosen
\* at the head of the pass, the for loop goes through it one position at a time
\* from the first, the file being streamed is the file at the loop's position,
\* and a pass that ends has gone through every position.
C22_PassOverSnapshot ==
    /\ [](passes >= 1 =>
             /\ IsPermutation(wav_indices, Len(wav_files))
             /\ pos \in 1..(Len(wav_files) + 1)
             /\ hpc = "endpass" => pos = Len(wav_files) + 1
             /\ hpc \in {"chunk", "sleep", "silence"} =>
                    /\ pos <= Len(wav_files)
                    /\ audio_data = wav_files[wav_indices[pos]].frames)
    /\ [][wav_files' = wav_files]_vars
    /\ [][wav_indices' # wav_indices => hpc = "while"]_vars
    /\ [][pos' # pos =>
             \/ hpc \in {"for", "silence"} /\ pos' = pos + 1
             \/ hpc = "while" /\ pos' = 1]_vars

\* The second pass over a list of two files has ended, in the order second file,
\* first file, with a file streamed.
C22_Witness ==
    /\ passes = 2
    /\ hpc = "endpass"
    /\ Len(wav_files) = 2
    /\ wav_indices = <<2, 1>>
    /\ streamed_in_pass
    /\ sends # <<>>

\* C23 (as claimed): the handler retires on disconnect, for every content of
\* the file list: a pass begun after the client has disconnected does not come
\* to its end with the handler still unaware and about to begin the same pass
\* again; the handler has met the failure and gone to its finally clause.
C23_RetiresOnDisconnect ==
    net # "up" => hpc # "endpass"

\* What holds of C23: a pass in which a file is streamed does not end once the
\* client has disconnected (the failed send ends the handler).
C23_StreamingPassNoticesDisconnect ==
    (net # "up" /\ hpc = "endpass") => ~streamed_in_pass

----------------------------------------------------------------------------
(* Claims about __main__ *)

\* sample_rate * ms / 1000 rounded to the nearest integer (ties to even).
RoundedSamples(rate, ms) ==
    LET whole == (rate * ms) \div 1000
        part == (rate * ms) % 1000
    IN IF part > 500 \/ (part = 500 /\ whole % 2 = 1) THEN whole + 1 ELSE whole

\* C10 (as claimed): the silence buffer is
\* round(sample_rate * silence_ms / 1000) * bytes_per_sample bytes long.
C10_SilenceLengthRounded ==
    mpc = "done" /\ config # NoConfig =>
        Len(config.silence_bytes) =
            RoundedSamples(args.sample_rate, args.silence_ms) * config.bytes_per_sample

\* C11 (as claimed): the silence buffer holds
\* floor(sample_rate * silence_ms / 1000) frames of bytes_per_sample bytes, every
\* byte 128 for 8 bits and 0 for 16 bits.
C11_SilenceFramesFloored ==
    mpc = "done" /\ config # NoConfig =>
        /\ config.silence_samples = (args.sample_rate * args.silence_ms) \div 1000
        /\ Len(config.silence_bytes) = config.silence_samples * config.bytes_per_sample
        /\ \A k \in 1..Len(config.silence_bytes) :
               config.silence_bytes[k] = (IF args.bits = 8 THEN 128 ELSE 0)

\* What holds of the silence buffer: it is silence_samples frames long and
\* filled as claimed.
C11_SilenceFill ==
    mpc = "done" /\ config # NoConfig =>
        /\ Len(config.silence_bytes) = config.silence_samples * config.bytes_per_sample
        /\ \A k \in 1..Len(config.silence_bytes) :
               config.silence_bytes[k] = (IF args.bits = 8 THEN 128 ELSE 0)

\* C21 (as claimed): the server never starts serving, and so never starts a
\* connection handler, with a chunk_size_bytes that is not positive.
C21_ServerRejectsEmptyChunk ==
    mpc = "serving" => config.chunk_size_bytes > 0

----------------------------------------------------------------------------
(* Claims about the byte stream of handle_client *)

\* s is a prefix of unit repeated.
IsPrefixOfRepetition(s, unit) ==
    \A k \in 1..Len(s) : unit # <<>> /\ s[k] = unit[((k - 1) % Len(unit)) + 1]

\* C9 (as claimed): with a single valid 16000 Hz 8-bit mono file and a client
\* that stays connected, the stream received is a repetition of the file's
\* payload followed by silence_ms * 16 bytes of value 128.
C9_PayloadThenSilence16PerMs ==
    (Len(wav_files) = 1 /\ args.sample_rate = 16000 /\ args.bits = 8 /\ args.channels = 1) =>
        IsPrefixOfRepetition(Received,
                             wav_files[1].frames \o [k \in 1..(args.silence_ms * 16) |-> 128])

\* What holds of the stream: it is a repetition of the payload followed by the
\* silence buffer __main__ computed.
C9_PayloadThenSilenceBuffer ==
    (Len(wav_files) = 1 /\ ~NoUsableFile /\ config.chunk_size_bytes > 0) =>
        IsPrefixOfRepetition(Received, wav_files[1].frames \o config.silence_bytes)

\* The number of sends of silence so far, failed ones included.
SilenceSends == Cardinality({k \in 1..Len(sends) : sends[k].kind = "silence"})

\* C28: the handler comes to the send of the silence from the end of the chunk
\* loop only, with the whole payload of the file sent (nothing, for a file of
\* zero frames), and the chunk loop that ends without a failed send leads there;
\* it leaves it by one send of the whole silence buffer, after which the next
\* file is due; no other step sends silence, and the step that skips a file
\* sends nothing.
C28_SilenceOncePerStreamedFile ==
    /\ [](hpc = "silence" =>
             /\ Flatten(FileChunks) = audio_data
             /\ \A k \in (file_mark + 1)..Len(sends) :
                    sends[k].kind = "file" /\ sends[k].ok)
    /\ [][/\ hpc' = "silence" /\ hpc # "silence" => hpc = "chunk"
          /\ hpc = "chunk" /\ hpc' \notin {"chunk", "sleep"} /\ client_active' =>
                hpc' = "silence"
          /\ hpc = "silence" /\ hpc' # "silence" =>
                /\ Len(sends') = Len(sends) + 1
                /\ sends'[Len(sends')].kind = "silence"
                /\ sends'[Len(sends')].data = config.silence_bytes
                /\ sends'[Len(sends')].ok => hpc' = "for" /\ pos' = pos + 1
          /\ SilenceSends' # SilenceSends => hpc = "silence"
          /\ hpc = "for" /\ hpc' = "for" => sends' = sends]_vars

\* A file of two bytes and a file of zero frames were streamed one after the
\* other: the client has the payload, one silence buffer for the first file and
\* one for the second.
C28_Witness ==
    /\ wav_files = <<HandlerFiles[2], HandlerFiles[3]>>
    /\ config.silence_samples = 1
    /\ hpc = "for"
    /\ \A k \in 1..Len(sends) : sends[k].ok
    /\ Received = HandlerFiles[2].frames \o config.silence_bytes \o config.silence_bytes

\* What holds of C28 when every file is skipped: nothing is sent at all.
C28_NoSilenceWhenAllSkipped ==
    (\A k \in 1..Len(wav_files) :
         read_wav_data(wav_files[k], config.sample_rate, config.bits,
                       config.channels).tag = "none")
        => sends = <<>>

\* C24 (as claimed): the silence goes through the pacer: no single send of
\* silence carries more than chunk_size_bytes.
C24_SilenceSentInChunks ==
    \A k \in 1..Len(sends) :
        sends[k].kind = "silence" => Len(sends[k].data) <= config.chunk_size_bytes

\* What holds of C24: every send of silence carries the whole silence buffer.
C24_SilenceSentWhole ==
    \A k \in 1..Len(sends) :
        sends[k].kind = "silence" => sends[k].data = config.silence_bytes

----------------------------------------------------------------------------
(* Claims about start_server *)

\* C14: an error raised by accept, by the re-scan of the directory or by the
\* start of the handler thread is never fatal: the step that logs it leads back
\* to accept and leaves every handler thread as it is, and the loop is left on
\* an interrupt only.
C14_AcceptErrorNotFatal ==
    /\ [](lpc \in {"accept", "scan", "start", "interrupted"})
    /\ [][errors_logged' # errors_logged =>
             /\ lpc' = "accept"
             /\ threads' = threads]_vars

\* One iteration of the loop has logged an error, and the loop has since
\* started the handler of a further connection while an earlier handler runs.
C14_Witness ==
    /\ errors_logged >= 1
    /\ lpc = "accept"
    /\ \E c, d \in ConnIds :
          /\ c < d
          /\ threads[c].state = "running"
          /\ threads[d].state = "running"
          /\ d = accepts

\* C27 (as claimed, WAV server): when the accept loop is back at accept, every
\* connection it has accepted is in the hands of a handler thread, or closed.
C27_AcceptedOwnedOrClosed ==
    lpc = "accept" =>
        \A c \in ConnIds :
            conn_socks[c] = "open" => threads[c].state = "running"

\* What holds of C27 in the WAV server: a connection is given to one handler
\* thread at most, and a connection handed to a thread is open as long as the
\* thread runs and closed when it has ended.
C27_HandedOverOnce ==
    /\ \A c \in ConnIds :
           /\ threads[c].state = "running" => conn_socks[c] = "open"
           /\ threads[c].state = "ended" => conn_socks[c] = "closed"
    /\ [][\A c \in ConnIds :
              threads[c].state # "none" =>
                  threads'[c].state \in {threads[c].state, "ended"}]_vars

\* What holds of C22 in the accept loop: the file list of a handler thread is
\* the listing taken when its connection was accepted, and later listings do
\* not change it.
C22_SnapshotKept ==
    [][\A c \in ConnIds :
          threads[c].state # "none" =>
              /\ threads'[c].state # "none"
              /\ threads'[c].wav_files = threads[c].wav_files]_vars

----------------------------------------------------------------------------
(* Claims about the microphone server *)

WriteFailed(c) == \E k \in 1..Len(wlog[c]) : ~wlog[c][k].ok

Delivered(c, item) == \E k \in 1..Len(wlog[c]) : wlog[c][k] = [item |-> item, ok |-> TRUE]

RoundOver == cpc \notin {"broadcast", "remove"}

\* C1: a client whose write failed is never written to again, and is out of the
\* registry (and closed) when the broadcast round releases the lock; every other
\* client that was registered in the round has received the round's chunk, and
\* stays registered until stop_server clears the registry.
C1_FailedClientPruned ==
    /\ \A c \in ClientIds : \A k \in 1..Len(wlog[c]) :
           ~wlog[c][k].ok => k = Len(wlog[c])
    /\ lock # "capture" =>
           \A c \in Members(clients) : ~WriteFailed(c) /\ sock[c].state = "open"
    /\ RoundOver =>
           \A c \in round.members :
               ~WriteFailed(c) =>
                   /\ Delivered(c, Audio(round.chunk))
                   /\ spc # "done" => c \in Members(clients)

\* Two clients were registered, the write of a chunk to one of them failed, the
\* registry holds the other one alone and it has received that chunk and the
\* next one.
C1_Witness ==
    \E f, c \in ClientIds :
        /\ f # c
        /\ clients = <<c>>
        /\ lock = "free"
        /\ sock[f].state = "closed"
        /\ \E n \in 1..MaxChunks :
               /\ wlog[f][Len(wlog[f])] = [item |-> Audio(n), ok |-> FALSE]
               /\ Delivered(c, Audio(n))
               /\ Delivered(c, Audio(n + 1))

HeaderCount(c) == Cardinality({k \in 1..Len(wlog[c]) : wlog[c][k].item = Header})

\* C2: the header is sent once to every accepted client, before the client joins
\* the registry and before anything else is written to it: nothing precedes the
\* header on a client socket, it is never sent twice, and a client that is being
\* registered, is registered or has been written an audio chunk has received it.
C2_HeaderFirst ==
    \A c \in ClientIds :
        /\ HeaderCount(c) <= 1
        /\ wlog[c] # <<>> => wlog[c][1].item = Header
        /\ (sock[c].state # "none" /\ ~(acc = c /\ apc = "header")) => HeaderCount(c) = 1
        /\ (\/ c \in Members(clients)
            \/ (acc = c /\ apc \in {"lock", "append"})
            \/ c \in round.members
            \/ Len(wlog[c]) > 1)
               => Delivered(c, Header)

\* A client has received its header and then an audio chunk, while the accept
\* thread is registering another client.
C2_Witness ==
    \E c \in ClientIds :
        /\ Len(wlog[c]) >= 2
        /\ wlog[c][1] = [item |-> Header, ok |-> TRUE]
        /\ wlog[c][2].item.kind = "audio"
        /\ wlog[c][2].ok
        /\ acc # c
        /\ apc = "append"

\* The thread that is inside a registry operation, if any.
InRegistry ==
    {t \in {"accept", "capture", "stop"} :
        \/ t = "accept" /\ apc = "append"
        \/ t = "capture" /\ cpc \in {"broadcast", "remove"}
        \/ t = "stop" /\ spc = "closing"}

\* C15: every read, iteration and mutation of the registry happens while
\* holding the lock: the threads inside a registry operation are the holder of
\* the lock and no other, so at most one, and a step that changes the registry
\* is taken by the holder of the lock and never while the capture thread
\* iterates the registry.
C15_RegistryUnderLock ==
    /\ [](InRegistry = (IF lock = "free" THEN {} ELSE {lock}))
    /\ [][clients' # clients =>
             /\ InRegistry = {lock}
             /\ cpc # "broadcast"]_vars

\* The capture thread iterates the registry while the accept thread, with a new
\* client, and stop_server wait for the lock.
C15_Witness ==
    /\ cpc = "broadcast"
    /\ idx <= Len(clients)
    /\ apc = "lock"
    /\ spc = "lock"
    /\ lock = "capture"

NoDuplicates(cl) == \A a, b \in 1..Len(cl) : a # b => cl[a] # cl[b]

\* C16: no client is removed or closed twice, removal and close happen in the
\* same critical section, and no write is attempted on a socket the server has
\* closed: no socket is closed more than once; the registry never holds a
\* client twice; every client the capture thread is about to remove is in the
\* registry, open, and listed once; with the lock free every registered socket
\* is open and every closed socket is out of the registry; and the socket a
\* thread is about to write to is open.
C16_NoDoubleRemoveOrClose ==
    /\ \A c \in ClientIds : sock[c].closes = (IF sock[c].state = "closed" THEN 1 ELSE 0)
    /\ NoDuplicates(clients)
    /\ cpc = "remove" =>
           /\ NoDuplicates(disconnected_clients)
           /\ \A k \in 1..Len(disconnected_clients) :
                  /\ disconnected_clients[k] \in Members(clients)
                  /\ sock[disconnected_clients[k]].state = "open"
    /\ lock = "free" => \A c \in Members(clients) : sock[c].state = "open"
    /\ (cpc = "broadcast" /\ idx <= Len(clients)) => sock[clients[idx]].state = "open"
    /\ apc = "header" => sock[acc].state = "open"

\* The capture thread has removed and closed a client whose write failed, and
\* stop_server has closed the client that was left: each was closed once.
C16_Witness ==
    /\ spc = "done"
    /\ clients = <<>>
    /\ \E c, d \in ClientIds :
          /\ WriteFailed(c)
          /\ sock[c].closes = 1
          /\ ~WriteFailed(d)
          /\ Delivered(d, Audio(1))
          /\ sock[d].closes = 1

LoopsHalted == apc = "exited" /\ cpc = "exited"

\* C17 (as claimed): once stop_server has returned and the accept loop and the
\* capture loop have halted, the registry is empty and every client socket that
\* is or was registered (it was written an audio chunk) is closed.
C17_HaltedRegistryEmptyAndClosed ==
    (spc = "done" /\ LoopsHalted) =>
        /\ clients = <<>>
        /\ \A c \in ClientIds :
               (c \in Members(clients) \/ \E n \in 1..MaxChunks : Delivered(c, Audio(n)))
                   => sock[c].state = "closed"

\* What holds of the halting: after the call of stop_server the accept loop and
\* the capture loop both halt, when every thread keeps taking its steps.
C17_LoopsHalt == (spc # "idle") ~> LoopsHalted

\* C18: a failed read of the capture device does not end the capture loop and
\* removes or closes no client: the step that fails leaves the registry, the
\* sockets, the writes and the running flag as they are and holds no lock, the
\* thread backs off and returns to the head of its loop, and the loop is left
\* only at its head with the running flag cleared.
C18_FailedReadRetried ==
    /\ [](cpc = "backoff" => lock # "capture")
    /\ [][(cpc = "read" /\ cpc' = "backoff") =>
             UNCHANGED <<clients, sock, wlog, running, lock>>]_vars
    /\ [][(cpc = "backoff" /\ cpc' # "backoff") =>
             /\ cpc' = "loop"
             /\ UNCHANGED <<clients, sock, wlog, running, lock>>]_vars
    /\ [][(cpc # "exited" /\ cpc' = "exited") => (cpc = "loop" /\ ~running)]_vars

\* A read has failed after the first chunk was broadcast: the capture thread
\* backs off, the client that received the chunk is registered and open.
C18_Witness ==
    /\ cpc = "backoff"
    /\ data = 1
    /\ running
    /\ \E c \in ClientIds :
          /\ c \in Members(clients)
          /\ Delivered(c, Audio(1))
          /\ sock[c].state = "open"

\* The capture thread is inside client.send to a client that does not read.
BlockedWrite ==
    /\ cpc = "broadcast"
    /\ idx <= Len(clients)
    /\ sock[clients[idx]].state = "open"
    /\ sock[clients[idx]].peer = "stalled"

\* C25 (as claimed): a blocked write to a stalled client stalls nobody else: the
\* capture loop can still take its next step, and an accept thread that holds a
\* newly accepted client can still take the lock to register it.
C25_StalledClientStallsNobody ==
    BlockedWrite =>
        /\ ENABLED CaptureThread
        /\ apc = "lock" => ENABLED A_Lock

\* What holds of C25: the write blocks inside the locked section, so as long as
\* it is blocked the capture thread holds the lock and sends to nobody.
C25_BlockedWriteHoldsLock ==
    BlockedWrite => lock = "capture" /\ ~ENABLED CaptureThread /\ ~ENABLED A_Lock

\* The chunks that the writes without an exception handed to client c, in order.
WrittenTo(c) ==
    SelectSeq(wlog[c], LAMBDA w : w.ok /\ w.item # Header)

\* C26 (as claimed): what a client is sent without an exception, after its
\* header, is whole chunks, each one once and in capture order with none left
\* out.
C26_WholeChunksOnceInOrder ==
    \A c \in ClientIds :
        LET w == WrittenTo(c)
        IN \A k \in 1..Len(w) :
               /\ w[k].item.kind = "audio"
               /\ k > 1 => w[k].item.seq = w[k - 1].item.seq + 1

\* What holds of C26: the writes to a client are of consecutive chunks, in
\* capture order, one write per chunk, whole or not.
C26_OnceInOrder ==
    \A c \in ClientIds :
        LET w == WrittenTo(c)
        IN \A k \in 2..Len(w) : w[k].item.seq = w[k - 1].item.seq + 1

\* C27 (as claimed, microphone server): when the accept thread is back at the
\* head of its loop, every socket it has accepted is in the registry, or closed.
C27_AcceptedRegisteredOrClosed ==
    apc \in {"loop", "accept"} /\ lock = "free" =>
        \A c \in ClientIds :
            sock[c].state = "open" => c \in Members(clients)

----------------------------------------------------------------------------
(* Claims about the players *)

\* C19 (as claimed): when the player has ended, on whatever path, the socket,
\* the playback stream and the audio library handle it acquired have been
\* released.
C19_ResourcesReleasedOnExit ==
    result # "none" =>
        /\ s_sock \in {"none", "closed"}
        /\ out_stream \in {"none", "closed"}
        /\ pa \in {"none", "terminated"}

\* What holds: a player that has reached its receive loop ends with the three
\* resources released, on an empty read, a socket error or a device error; and
\* the socket is closed on every exit.
C19_ReleasedAfterReceiveLoop ==
    /\ result # "none" => s_sock \in {"none", "closed"}
    /\ (result # "none" /\ (played # <<>> \/ device = "failed")) =>
           /\ out_stream = "closed"
           /\ pa = "terminated"

\* The bytes played are the first audio bytes, and the bytes still to be
\* received are later audio bytes: the header is neither played nor left.
AudioOnly ==
    /\ played = SubSeq(AudioBytes, 1, Len(played))
    /\ \E j \in (Len(played) + 1)..(MaxAudio + 1), n \in 0..MaxAudio :
          wire = SubSeq(AudioBytes, j, n)

\* The read of the header has returned bytes.
HeaderReadReturned ==
    /\ player = "connect_and_play"
    /\ ppc \notin {"start", "recv_header"}
    /\ recv_data # <<>>

\* C20 (as claimed): however the transport splits the stream into reads, once
\* the read of the header has returned the client has consumed the twelve
\* header bytes and no more, has decoded the three values the server packed,
\* and plays audio bytes only.
C20_HeaderConsumedFirst ==
    HeaderReadReturned =>
        /\ header = sent_config
        /\ AudioOnly

\* What holds: when the first read returns the twelve bytes at once, the values
\* decoded are the values packed, the stream is opened after the decoding, and
\* the bytes played are the audio bytes in order.
C20_WholeHeaderDecoded ==
    /\ (player = "connect_and_play" /\ out_stream # "none") => header # <<>>
    /\ header # <<>> =>
           /\ header = sent_config
           /\ AudioOnly

\* What holds of C21 in the client: play_stream is never entered with a buffer
\* size that is not positive.
C21_ClientRejectsEmptyBuffer ==
    (player = "play_stream" /\ recv_size <= 0) =>
        /\ ppc \in {"main", "done"}
        /\ pa = "none"
        /\ s_sock = "none"
        /\ played = <<>>

====
